---------------------------- MODULE Spec2Model ----------------------------
(***************************************************************************)
(* Workout tracker (connorreitz/workout-app): the Dexie store (db.js), the *)
(* React handlers that read and write it (App component), the JSON backup  *)
(* and restore, as a state machine.                                        *)
(*                                                                         *)
(* Modelling conventions                                                   *)
(*  - A JavaScript value is a tagged tree (JNull, Num, Str, Arr, Obj); an  *)
(*    object is the ordered list of its <<key, value>> members, so field   *)
(*    order is part of the value.  A string value is the sequence of its   *)
(*    characters; a member name is an atom.                                *)
(*  - JSON text is the sequence of its tokens.                             *)
(*  - Every `await db.table.op()` takes effect on the store when it is     *)
(*    issued (IndexedDB runs transactions on one object store in creation  *)
(*    order) and its handler resumes in a later step; between the two any  *)
(*    other handler or user event may run.                                 *)
(*  - A handler in flight is an element of procs.                          *)
(***************************************************************************)
EXTENDS Integers, Sequences, FiniteSets, TLC

(***************************************************************************)
(* Bounds of the model.                                                    *)
(***************************************************************************)
MaxEvents == 4      \* user events (clicks, file selections) in one run
MaxProcs == 2       \* handlers in flight at the same time
MaxSame == 1        \* of them, runs of one handler other than the two below
MaxFinish == 2      \* of them, runs of handleFinishSession

(***************************************************************************)
(* JavaScript values.                                                      *)
(***************************************************************************)
Undefined == [t |-> "undef"]
JNull == [t |-> "null"]
Bool(b) == [t |-> "bool", b |-> b]
Num(n) == [t |-> "num", n |-> n]
Str(s) == [t |-> "str", s |-> s]
Arr(a) == [t |-> "arr", a |-> a]
Obj(o) == [t |-> "obj", o |-> o]

NaN == [t |-> "nan"]

IsObj(v) == v.t = "obj"
IsArr(v) == v.t = "arr"
IsNum(v) == v.t = "num"

\* JavaScript truthiness, as tested by `if (importedLogs)`.
Truthy(v) ==
  CASE v.t = "undef" -> FALSE
    [] v.t = "null" -> FALSE
    [] v.t = "bool" -> v.b
    [] v.t = "num" -> v.n # 0
    [] v.t = "nan" -> FALSE
    [] v.t = "str" -> v.s # <<>>
    [] OTHER -> TRUE

HasKey(v, k) == IsObj(v) /\ \E i \in DOMAIN v.o : v.o[i][1] = k

\* Property read v[k]: undefined when v has no own member k.
Get(v, k) ==
  IF HasKey(v, k)
  THEN v.o[CHOOSE i \in DOMAIN v.o : v.o[i][1] = k][2]
  ELSE Undefined

\* Property write: an existing member keeps its place, a new one goes last.
SetKey(v, k, x) ==
  IF HasKey(v, k)
  THEN Obj([i \in DOMAIN v.o |-> IF v.o[i][1] = k THEN <<k, x>> ELSE v.o[i]])
  ELSE Obj(Append(v.o, <<k, x>>))

(***************************************************************************)
(* JSON.stringify and JSON.parse over token sequences.                     *)
(***************************************************************************)
Tok(k) == [k |-> k]

RECURSIVE Stringify(_)
RECURSIVE StringifyElems(_, _)
RECURSIVE StringifyMembers(_, _)

StringifyElems(a, i) ==
  IF i > Len(a) THEN <<>>
  ELSE (IF i > 1 THEN <<Tok(",")>> ELSE <<>>)
         \o Stringify(a[i]) \o StringifyElems(a, i + 1)

StringifyMembers(o, i) ==
  IF i > Len(o) THEN <<>>
  ELSE (IF i > 1 THEN <<Tok(",")>> ELSE <<>>)
         \o <<[k |-> "key", s |-> o[i][1]], Tok(":")>>
         \o Stringify(o[i][2]) \o StringifyMembers(o, i + 1)

Stringify(v) ==
  CASE v.t = "null" -> <<Tok("null")>>
    [] v.t = "bool" -> <<Tok(IF v.b THEN "true" ELSE "false")>>
    [] v.t = "num" -> <<[k |-> "num", n |-> v.n]>>
    [] v.t = "str" -> <<[k |-> "str", s |-> v.s]>>
    [] v.t = "arr" -> <<Tok("[")>> \o StringifyElems(v.a, 1) \o <<Tok("]")>>
    [] v.t = "obj" -> <<Tok("{")>> \o StringifyMembers(v.o, 1) \o <<Tok("}")>>

ParseFail == [ok |-> FALSE, v |-> Undefined, i |-> 0]
ParseOk(v, i) == [ok |-> TRUE, v |-> v, i |-> i]

RECURSIVE ParseValue(_, _)
RECURSIVE ParseElems(_, _, _)
RECURSIVE ParseMembers(_, _, _)

ParseElems(toks, i, acc) ==
  LET r == ParseValue(toks, i) IN
  IF ~r.ok \/ r.i > Len(toks) THEN ParseFail
  ELSE IF toks[r.i].k = "," THEN ParseElems(toks, r.i + 1, Append(acc, r.v))
  ELSE IF toks[r.i].k = "]" THEN ParseOk(Arr(Append(acc, r.v)), r.i + 1)
  ELSE ParseFail

ParseMembers(toks, i, acc) ==
  IF i + 1 > Len(toks) \/ toks[i].k # "key" \/ toks[i + 1].k # ":"
  THEN ParseFail
  ELSE LET r == ParseValue(toks, i + 2)
           acc2 == SetKey(acc, toks[i].s, r.v)
       IN IF ~r.ok \/ r.i > Len(toks) THEN ParseFail
          ELSE IF toks[r.i].k = "," THEN ParseMembers(toks, r.i + 1, acc2)
          ELSE IF toks[r.i].k = "}" THEN ParseOk(acc2, r.i + 1)
          ELSE ParseFail

ParseValue(toks, i) ==
  IF i > Len(toks) THEN ParseFail
  ELSE LET tk == toks[i] IN
    CASE tk.k = "null" -> ParseOk(JNull, i + 1)
      [] tk.k = "true" -> ParseOk(Bool(TRUE), i + 1)
      [] tk.k = "false" -> ParseOk(Bool(FALSE), i + 1)
      [] tk.k = "num" -> ParseOk(Num(tk.n), i + 1)
      [] tk.k = "str" -> ParseOk(Str(tk.s), i + 1)
      [] tk.k = "[" ->
           IF i + 1 <= Len(toks) /\ toks[i + 1].k = "]"
           THEN ParseOk(Arr(<<>>), i + 2)
           ELSE ParseElems(toks, i + 1, <<>>)
      [] tk.k = "{" ->
           IF i + 1 <= Len(toks) /\ toks[i + 1].k = "}"
           THEN ParseOk(Obj(<<>>), i + 2)
           ELSE ParseMembers(toks, i + 1, Obj(<<>>))
      [] OTHER -> ParseFail

\* JSON.parse(text): ok = FALSE models the SyntaxError it throws.
JSONParse(toks) ==
  LET r == ParseValue(toks, 1) IN
  IF r.ok /\ r.i = Len(toks) + 1 THEN [ok |-> TRUE, v |-> r.v]
  ELSE [ok |-> FALSE, v |-> Undefined]

(***************************************************************************)
(* A Dexie table with schema '++id, ...': rows in primary-key order and    *)
(* the key generator's current number.                                     *)
(***************************************************************************)
EmptyTable == [rows |-> <<>>, next |-> 1]

RowId(row) == Get(row, "id").n

HasId(tbl, n) == \E i \in DOMAIN tbl.rows : RowId(tbl.rows[i]) = n

\* rows with row put at its place in primary-key order
InsertRow(rows, row) ==
  LET n == RowId(row)
      before == SelectSeq(rows, LAMBDA r : RowId(r) < n)
      after == SelectSeq(rows, LAMBDA r : RowId(r) > n)
  IN before \o <<row>> \o after

Max(a, b) == IF a >= b THEN a ELSE b

\* Mutation of PutNew: the key generator numbers every value, the value's
\* own id is overwritten.
PutNewFresh(tbl, item) ==
  IF ~IsObj(item) THEN [tbl |-> tbl, ok |-> FALSE]
  ELSE [tbl |-> [rows |-> Append(tbl.rows, SetKey(item, "id", Num(tbl.next))),
                 next |-> tbl.next + 1],
        ok |-> TRUE]

\* One IndexedDB add request: [tbl, ok].  A value that is no object, an id
\* that is no valid key and a key already present fail (DataError,
\* ConstraintError); a value without id gets the generator's next number.
PutNew(tbl, item) ==
  IF ~IsObj(item) THEN [tbl |-> tbl, ok |-> FALSE]
  ELSE IF Get(item, "id").t = "undef"
  THEN [tbl |-> [rows |-> Append(tbl.rows, SetKey(item, "id", Num(tbl.next))),
                 next |-> tbl.next + 1],
        ok |-> TRUE]
  ELSE IF ~IsNum(Get(item, "id")) \/ HasId(tbl, RowId(item))
  THEN [tbl |-> tbl, ok |-> FALSE]
  ELSE [tbl |-> [rows |-> InsertRow(tbl.rows, item),
                 next |-> Max(tbl.next, RowId(item) + 1)],
        ok |-> TRUE]

\* Mutation of TableAdd: a put that replaces what the table holds.
TableAddOver(tbl, item) == PutNew([tbl EXCEPT !.rows = <<>>], item)

\* table.add(item)
TableAdd(tbl, item) == PutNew(tbl, item)

\* table.bulkAdd(items): every request is tried, the ones that succeed stay
\* in the table, and the call rejects (ok = FALSE) when any of them failed.
RECURSIVE BulkAddFrom(_, _, _, _)
BulkAddFrom(tbl, items, i, ok) ==
  IF i > Len(items) THEN [tbl |-> tbl, ok |-> ok]
  ELSE LET r == PutNew(tbl, items[i])
       IN BulkAddFrom(r.tbl, items, i + 1, ok /\ r.ok)

TableBulkAdd(tbl, items) ==
  IF ~IsArr(items) THEN [tbl |-> tbl, ok |-> FALSE]
  ELSE BulkAddFrom(tbl, items.a, 1, TRUE)

\* Mutation of TableClear: nothing is removed.
TableClearNot(tbl) == tbl

\* table.clear(): the key generator is not reset.
TableClear(tbl) == [tbl EXCEPT !.rows = <<>>]

\* Mutation of TableDelete: the rows up to that key are removed.
TableDeleteUpTo(tbl, n) ==
  [tbl EXCEPT !.rows = SelectSeq(tbl.rows, LAMBDA r : RowId(r) > n)]

\* table.delete(id): no effect when no row has that key.
TableDelete(tbl, n) ==
  [tbl EXCEPT !.rows = SelectSeq(tbl.rows, LAMBDA r : RowId(r) # n)]

\* table.toArray()
ToArray(tbl) == Arr(tbl.rows)

(***************************************************************************)
(* Strings.                                                                *)
(***************************************************************************)
IsSpace(c) == c = " "

\* String.prototype.trim
RECURSIVE Trim(_)
Trim(s) ==
  IF s = <<>> THEN s
  ELSE IF IsSpace(Head(s)) THEN Trim(Tail(s))
  ELSE IF IsSpace(s[Len(s)]) THEN Trim(SubSeq(s, 1, Len(s) - 1))
  ELSE s

Digits == <<"0", "1", "2", "3", "4", "5", "6", "7", "8", "9">>
IsDigit(c) == \E d \in DOMAIN Digits : Digits[d] = c
DigitVal(c) == (CHOOSE d \in DOMAIN Digits : Digits[d] = c) - 1

\* new Date().toISOString() at model time n (one tick per user event)
IsoDate(n) == Str(<<"T", Digits[n + 1]>>)

(***************************************************************************)
(* The application's state.                                                *)
(***************************************************************************)
VARIABLES
  variant,      \* which App component runs: "db.js" or "part_000"
  hasPicker,    \* 'showSaveFilePicker' in window
  db,           \* the Dexie database: tables logs, plans, exercises
  activeTab,    \* useState('plan')
  fileHandle,   \* useState(null): TRUE once a handle is held
  logs,         \* useState([]): the UI's copy of db.logs
  plans,        \* useState([]): the UI's copy of db.plans
  activePlan,   \* useState(null)
  procs,        \* the async handlers in flight, oldest first
  backup,       \* the file the last backup export produced
  events,       \* user events so far (also the clock)
  session,      \* history: number of the running session, 0 when none
  sessionLogs,  \* history: sessionLogs[s] = logs added for session s
  step,         \* the alerts the last step showed
  calc          \* InsightsView: a call of one of its helpers and what it returned

vars == <<variant, hasPicker, db, activeTab, fileHandle, logs, plans,
          activePlan, procs, backup, events, session, sessionLogs, step, calc>>

\* No helper has been called.
NoCalc == [fn |-> "none"]

Tabs == {"plan", "active", "insights", "settings"}

Variants == {"db.js", "part_000"}

NoBackup == [via |-> "none", text |-> <<>>, snap |-> Undefined, torn |-> FALSE]

\* The three collections of store d, as saveToBackupFile lays them out.
Snapshot(d) ==
  Obj(<< <<"logs", Arr(d.logs.rows)>>, <<"plans", Arr(d.plans.rows)>>,
         <<"exercises", Arr(d.exercises.rows)>> >>)

\* A handler in flight.  Its history: alone, no other handler has written to
\* the store since this one started; prior, the store when it started (kept
\* while alone); views, the stores there have been since an export's first
\* read that agree with what it has read; torn, whether the three reads of
\* an export agree with none of them; log, the row handleFinishSession added.
Proc(kind, pc) ==
  [kind |-> kind, pc |-> pc, alone |-> TRUE, ok |-> TRUE,
   stage |-> 0, fh |-> FALSE, sess |-> 0, res |-> Undefined,
   allLogs |-> Undefined, allPlans |-> Undefined, allExercises |-> Undefined,
   file |-> "", text |-> <<>>, snap |-> Undefined, data |-> Undefined,
   prior |-> Undefined, views |-> {}, torn |-> FALSE, log |-> Undefined]

\* What a step showed the user (alert).
Shown(alerts) == [alerts |-> alerts]
Silent == Shown(<<>>)

\* The runs of handler kind in flight.
InFlight(kind) == Cardinality({i \in DOMAIN procs : procs[i].kind = kind})

\* Whether one more run of handler kind can start.
CanStart(kind) ==
  /\ Len(procs) < MaxProcs
  /\ InFlight(kind) < (CASE kind = "finish" -> MaxFinish
                         [] kind = "refresh" -> MaxProcs
                         [] OTHER -> MaxSame)

Remove(ps, i) == SubSeq(ps, 1, i - 1) \o SubSeq(ps, i + 1, Len(ps))

\* An export between its first read and its last.
Reading(p) == p.pc \in {"xLogs", "xPlans"}

\* ps after a store write by the handler at index i (0: a handler not yet in
\* ps) that made the store d: every other handler has been interfered with,
\* and an export that is reading has one more store to agree with.
Interfere(ps, i, d) ==
  [j \in DOMAIN ps |->
     IF j = i THEN ps[j]
     ELSE [ps[j] EXCEPT !.alone = FALSE, !.prior = Undefined,
                        !.views = IF Reading(ps[j]) THEN @ \cup {Snapshot(d)}
                                  ELSE @]]

(***************************************************************************)
(* Data the user can enter, and stores the application can start from.     *)
(***************************************************************************)
PlanExercise(name, goalSets) ==
  Obj(<< <<"name", Str(name)>>, <<"goalSets", goalSets>>,
         <<"goalReps", Str(<<"8", "-", "1", "2">>)>> >>)

\* The goalSets input: db.js stores the input's text, part_000 parseInt(..)||0.
GoalSets(v, n) == IF v = "db.js" THEN Str(<<Digits[n + 1]>>) ELSE Num(n)

\* The plan form: planTitle and currentPlanExercises when the button is hit.
PlanForms(v) ==
  { [title |-> <<>>, exercises |-> <<>>],
    [title |-> <<" ">>, exercises |-> <<PlanExercise(<<"B">>, GoalSets(v, 1))>>],
    [title |-> <<" ", "Q">>, exercises |-> <<PlanExercise(<<"S">>, GoalSets(v, 0))>>] }

BlankSet == Obj(<< <<"weight", Str(<<>>)>>, <<"reps", Str(<<>>)>> >>)
DoneSet == Obj(<< <<"weight", Str(<<"5">>)>>, <<"reps", Str(<<"3">>)>> >>)

SeedPlan ==
  Obj(<< <<"title", Str(<<"P">>)>>,
         <<"exercises", Arr(<<PlanExercise(<<"B">>, Num(1))>>)>>,
         <<"id", Num(1)>> >>)

SeedLog ==
  Obj(<< <<"planTitle", Str(<<"P">>)>>, <<"date", IsoDate(0)>>,
         <<"exercises",
           Arr(<<Obj(<< <<"name", Str(<<"B">>)>>, <<"sets", Arr(<<DoneSet>>)>> >>)>>)>>,
         <<"id", Num(1)>> >>)

SeedExercise == Obj(<< <<"id", Num(1)>>, <<"name", Str(<<"B">>)>> >>)

EmptyDB == [logs |-> EmptyTable, plans |-> EmptyTable, exercises |-> EmptyTable]

SeedDB ==
  [logs |-> [rows |-> <<SeedLog>>, next |-> 2],
   plans |-> [rows |-> <<SeedPlan>>, next |-> 2],
   exercises |-> [rows |-> <<SeedExercise>>, next |-> 2]]

(***************************************************************************)
(* refreshData / fetchData: the effect run on mount and on a tab change.   *)
(***************************************************************************)
\* The effect's synchronous part: db.logs.toArray() is issued.
RefreshProc(d) ==
  [Proc("refresh", "logs") EXCEPT !.allLogs = ToArray(d.logs)]

Init ==
  /\ variant \in Variants
  /\ hasPicker \in BOOLEAN
  /\ db \in {EmptyDB, SeedDB}
  /\ activeTab = "plan"
  /\ fileHandle = FALSE
  /\ logs = Arr(<<>>)
  /\ plans = Arr(<<>>)
  /\ activePlan = JNull
  /\ procs = <<RefreshProc(db)>>
  /\ backup = NoBackup
  /\ events = 0
  /\ session = 0
  /\ sessionLogs = <<>>
  /\ step = Silent
  /\ calc = NoCalc

\* logs.toArray() resolved: plans.toArray() is issued (part_000 sets logs first).
RefreshLogs(i) ==
  /\ procs[i].kind = "refresh" /\ procs[i].pc = "logs"
  /\ procs' = [procs EXCEPT ![i].pc = "plans", ![i].allPlans = ToArray(db.plans)]
  /\ logs' = IF variant = "part_000" THEN procs[i].allLogs ELSE logs
  /\ step' = Silent
  /\ UNCHANGED <<calc, variant, hasPicker, db, activeTab, fileHandle, plans,
                 activePlan, backup, events, session, sessionLogs>>

\* plans.toArray() resolved: setLogs, setPlans (part_000: setPlans).
RefreshDone(i) ==
  /\ procs[i].kind = "refresh" /\ procs[i].pc = "plans"
  /\ logs' = IF variant = "db.js" THEN procs[i].allLogs ELSE logs
  /\ plans' = procs[i].allPlans
  /\ procs' = Remove(procs, i)
  /\ step' = Silent
  /\ UNCHANGED <<calc, variant, hasPicker, db, activeTab, fileHandle, activePlan,
                 backup, events, session, sessionLogs>>

\* A navigation button: setActiveTab(t); the effect runs when the tab changed.
TabClick(t) ==
  /\ events < MaxEvents /\ CanStart("refresh")
  /\ t # activeTab
  /\ activeTab' = t
  /\ events' = events + 1
  /\ procs' = Append(procs, RefreshProc(db))
  /\ step' = Silent
  /\ UNCHANGED <<calc, variant, hasPicker, db, fileHandle, logs, plans, activePlan,
                 backup, session, sessionLogs>>

(***************************************************************************)
(* PlanCreator: savePlan and deletePlan.                                   *)
(***************************************************************************)
\* Mutation of TitleIsEmpty: `!planTitle`, without the trim.
TitleIsEmptyNoTrim(title) == title = <<>>

\* `!planTitle.trim()`
TitleIsEmpty(title) == Trim(title) = <<>>

NewPlan(form) ==
  Obj(<< <<"title", Str(form.title)>>, <<"exercises", Arr(form.exercises)>> >>)

\* savePlan with a title the guard rejects: alert and return.
SavePlanRejected(form) ==
  /\ events < MaxEvents
  /\ activeTab = "plan"
  /\ TitleIsEmpty(form.title)
  /\ events' = events + 1
  /\ step' = Shown(<<"Plan title cannot be empty.">>)
  /\ UNCHANGED <<calc, variant, hasPicker, db, activeTab, fileHandle, logs, plans,
                 activePlan, procs, backup, session, sessionLogs>>

\* savePlan past the guard: db.plans.add is issued.
SavePlanClick(form) ==
  /\ events < MaxEvents /\ CanStart("savePlan")
  /\ activeTab = "plan"
  /\ ~TitleIsEmpty(form.title)
  /\ db' = [db EXCEPT !.plans = TableAdd(db.plans, NewPlan(form)).tbl]
  /\ events' = events + 1
  /\ procs' = Append(Interfere(procs, 0, db'), Proc("savePlan", "add"))
  /\ step' = Silent
  /\ UNCHANGED <<calc, variant, hasPicker, activeTab, fileHandle, logs, plans,
                 activePlan, backup, session, sessionLogs>>

\* add resolved: the form is reset and db.plans.toArray() is issued.
SavePlanAdded(i) ==
  /\ procs[i].kind = "savePlan" /\ procs[i].pc = "add"
  /\ procs' = [procs EXCEPT ![i].pc = "read", ![i].res = ToArray(db.plans)]
  /\ step' = Silent
  /\ UNCHANGED <<calc, variant, hasPicker, db, activeTab, fileHandle, logs, plans,
                 activePlan, backup, events, session, sessionLogs>>

\* toArray resolved: setPlans and the success alert.
SavePlanDone(i) ==
  /\ procs[i].kind = "savePlan" /\ procs[i].pc = "read"
  /\ plans' = procs[i].res
  /\ procs' = Remove(procs, i)
  /\ step' = Shown(<<"Plan saved successfully!">>)
  /\ UNCHANGED <<calc, variant, hasPicker, db, activeTab, fileHandle, logs,
                 activePlan, backup, events, session, sessionLogs>>

\* The ids of the plans the list shows (the UI's copy, which may be stale).
ShownPlanIds == {RowId(plans.a[k]) : k \in DOMAIN plans.a}

\* deletePlan(id), window.confirm answered no.
DeletePlanDeclined(id) ==
  /\ events < MaxEvents
  /\ activeTab = "plan" /\ id \in ShownPlanIds
  /\ events' = events + 1
  /\ step' = Silent
  /\ UNCHANGED <<calc, variant, hasPicker, db, activeTab, fileHandle, logs, plans,
                 activePlan, procs, backup, session, sessionLogs>>

\* Mutation of DeletePlanClick: the plan's logs (same id) are deleted too.
DeletePlanCascade(id) ==
  /\ events < MaxEvents /\ CanStart("deletePlan")
  /\ activeTab = "plan" /\ id \in ShownPlanIds
  /\ db' = [db EXCEPT !.plans = TableDelete(db.plans, id),
                      !.logs = TableDelete(db.logs, id)]
  /\ events' = events + 1
  /\ procs' = Append(Interfere(procs, 0, db'), Proc("deletePlan", "delete"))
  /\ step' = Silent
  /\ UNCHANGED <<calc, variant, hasPicker, activeTab, fileHandle, logs, plans,
                 activePlan, backup, session, sessionLogs>>

\* deletePlan(id), confirmed: db.plans.delete(id) is issued.
DeletePlanClick(id) ==
  /\ events < MaxEvents /\ CanStart("deletePlan")
  /\ activeTab = "plan" /\ id \in ShownPlanIds
  /\ db' = [db EXCEPT !.plans = TableDelete(db.plans, id)]
  /\ events' = events + 1
  /\ procs' = Append(Interfere(procs, 0, db'), Proc("deletePlan", "delete"))
  /\ step' = Silent
  /\ UNCHANGED <<calc, variant, hasPicker, activeTab, fileHandle, logs, plans,
                 activePlan, backup, session, sessionLogs>>

DeletePlanDeleted(i) ==
  /\ procs[i].kind = "deletePlan" /\ procs[i].pc = "delete"
  /\ procs' = [procs EXCEPT ![i].pc = "read", ![i].res = ToArray(db.plans)]
  /\ step' = Silent
  /\ UNCHANGED <<calc, variant, hasPicker, db, activeTab, fileHandle, logs, plans,
                 activePlan, backup, events, session, sessionLogs>>

DeletePlanDone(i) ==
  /\ procs[i].kind = "deletePlan" /\ procs[i].pc = "read"
  /\ plans' = procs[i].res
  /\ procs' = Remove(procs, i)
  /\ step' = Shown(<<"Plan deleted.">>)
  /\ UNCHANGED <<calc, variant, hasPicker, db, activeTab, fileHandle, logs,
                 activePlan, backup, events, session, sessionLogs>>

(***************************************************************************)
(* PlanSelector and ActiveSession.                                         *)
(***************************************************************************)
\* onSelectPlan(plan): setActivePlan; a session starts.
SelectPlan(k) ==
  /\ events < MaxEvents
  /\ activeTab = "active" /\ activePlan = JNull
  /\ k \in DOMAIN plans.a
  /\ activePlan' = plans.a[k]
  /\ session' = Len(sessionLogs) + 1
  /\ sessionLogs' = Append(sessionLogs, 0)
  /\ events' = events + 1
  /\ step' = Silent
  /\ UNCHANGED <<calc, variant, hasPicker, db, activeTab, fileHandle, logs, plans,
                 procs, backup>>

\* onCancel (db.js only): setActivePlan(null).
CancelSession ==
  /\ events < MaxEvents
  /\ variant = "db.js"
  /\ activeTab = "active" /\ activePlan # JNull
  /\ activePlan' = JNull
  /\ session' = 0
  /\ events' = events + 1
  /\ step' = Silent
  /\ UNCHANGED <<calc, variant, hasPicker, db, activeTab, fileHandle, logs, plans,
                 procs, backup, sessionLogs>>

\* The number `Array.from({length: v})` makes of v (ToLength).
RECURSIVE DigitsValue(_, _)
DigitsValue(s, acc) ==
  IF s = <<>> THEN acc ELSE DigitsValue(Tail(s), 10 * acc + DigitVal(Head(s)))

ToLength(v) ==
  CASE v.t = "num" -> Max(v.n, 0)
    [] v.t = "str" ->
         IF \A k \in DOMAIN v.s : IsDigit(v.s[k]) THEN DigitsValue(v.s, 0) ELSE 0
    [] OTHER -> 0

Blanks(n) == [k \in 1..n |-> BlankSet]

\* ActiveSession's initial results: one entry per plan exercise, with
\* `ex.goalSets || 3` blank sets.
InitialResults(plan) ==
  LET exs == Get(plan, "exercises").a IN
  [k \in DOMAIN exs |->
     LET goalSets == Get(exs[k], "goalSets")
     IN Obj(<< <<"name", Get(exs[k], "name")>>,
               <<"sets", Arr(Blanks(ToLength(IF Truthy(goalSets)
                                             THEN goalSets ELSE Num(3))))>> >>)]

\* updateResult(exIdx, setIdx, field, val)
UpdateResult(results, exIdx, setIdx, field, val) ==
  LET sets == Get(results[exIdx], "sets").a
      sets2 == [sets EXCEPT ![setIdx] = SetKey(sets[setIdx], field, Str(val))]
  IN [results EXCEPT ![exIdx] = SetKey(results[exIdx], "sets", Arr(sets2))]

\* What the user has entered when FINISH is hit: nothing, or the first set.
SessionResults(plan, filled) ==
  LET r0 == InitialResults(plan) IN
  IF filled /\ r0 # <<>> /\ Get(r0[1], "sets").a # <<>>
  THEN UpdateResult(UpdateResult(r0, 1, 1, "weight", <<"5">>), 1, 1, "reps", <<"3">>)
  ELSE r0

NewLog(planTitle, date, sessionResults) ==
  Obj(<< <<"planTitle", planTitle>>, <<"date", date>>,
         <<"exercises", Arr(sessionResults)>> >>)

(***************************************************************************)
(* handleFinishSession, up to the call of saveToBackupFile.                *)
(***************************************************************************)
\* FINISH WORKOUT: onFinish(plan.title, results); db.logs.add is issued.
FinishClick(filled) ==
  /\ events < MaxEvents /\ CanStart("finish")
  /\ activeTab = "active" /\ activePlan # JNull
  /\ db' = [db EXCEPT !.logs =
              TableAdd(db.logs,
                       NewLog(Get(activePlan, "title"), IsoDate(events + 1),
                              SessionResults(activePlan, filled))).tbl]
  /\ sessionLogs' = [sessionLogs EXCEPT ![session] = @ + 1]
  /\ events' = events + 1
  /\ procs' = Append(Interfere(procs, 0, db'),
                     [Proc("finish", "add") EXCEPT
                        !.fh = fileHandle, !.sess = session,
                        !.log = db'.logs.rows[Len(db'.logs.rows)]])
  /\ step' = Silent
  /\ UNCHANGED <<calc, variant, hasPicker, activeTab, fileHandle, logs, plans,
                 activePlan, backup, session>>

\* add resolved: db.logs.toArray() is issued.
FinishAdded(i) ==
  /\ procs[i].kind = "finish" /\ procs[i].pc = "add"
  /\ procs' = [procs EXCEPT ![i].pc = "read", ![i].res = ToArray(db.logs)]
  /\ step' = Silent
  /\ UNCHANGED <<calc, variant, hasPicker, db, activeTab, fileHandle, logs, plans,
                 activePlan, backup, events, session, sessionLogs>>

(***************************************************************************)
(* saveToBackupFile, called by the Settings button (kind "backup") and by  *)
(* handleFinishSession (kind "finish").  fh is the fileHandle the closure  *)
(* captured.                                                               *)
(***************************************************************************)
BackupFailedAlert == "Backup failed or cancelled."
BackupUpdatedAlert == "Local backup file updated!"
WorkoutCompleteAlert == "Workout complete! Data saved and backup file updated."

\* The call's synchronous part.  db.js issues db.logs.toArray() at once;
\* part_000 first needs a handle: it opens the picker when it holds none,
\* and fails at once (pc "failed") when the host has no picker.
\* Mutation of ReadLogs: the export takes the UI's copy of the logs.
ReadLogsStale(p) ==
  [p EXCEPT !.pc = "xLogs", !.allLogs = logs, !.views = {Snapshot(db)}]

ReadLogs(p) ==
  [p EXCEPT !.pc = "xLogs", !.allLogs = ToArray(db.logs),
            !.views = {Snapshot(db)}]

ExportCall(p) ==
  IF variant = "db.js" \/ p.fh
  THEN ReadLogs(p)
  ELSE IF hasPicker THEN [p EXCEPT !.pc = "picker"]
  ELSE [p EXCEPT !.pc = "failed"]

AllData(p) ==
  Obj(<< <<"logs", p.allLogs>>, <<"plans", p.allPlans>>,
         <<"exercises", p.allExercises>> >>)

\* The file an export produces; snap is history: the value it serialised.
BackupFile(via, p) ==
  [via |-> via, text |-> Stringify(AllData(p)), snap |-> AllData(p),
   torn |-> p.torn]

\* saveToBackupFile returns to its caller having shown alerts: the Settings
\* handler ends; handleFinishSession runs to its end (setActivePlan(null),
\* setActiveTab('insights') and its effect, the alert).
ExportReturn(i, alerts) ==
  IF procs[i].kind = "finish"
  THEN /\ activePlan' = JNull
       /\ session' = 0
       /\ activeTab' = "insights"
       /\ procs' = IF activeTab # "insights"
                   THEN [procs EXCEPT ![i] = RefreshProc(db)]
                   ELSE Remove(procs, i)
       /\ step' = Shown(alerts \o <<WorkoutCompleteAlert>>)
  ELSE /\ procs' = Remove(procs, i)
       /\ step' = Shown(alerts)
       /\ UNCHANGED <<activePlan, session, activeTab>>

\* handleFinishSession: toArray resolved, setLogs, saveToBackupFile is called.
FinishRead(i) ==
  /\ procs[i].kind = "finish" /\ procs[i].pc = "read"
  /\ ExportCall(procs[i]).pc # "failed"
  /\ logs' = procs[i].res
  /\ procs' = [procs EXCEPT ![i] = ExportCall(procs[i])]
  /\ step' = Silent
  /\ UNCHANGED <<calc, variant, hasPicker, db, activeTab, fileHandle, plans,
                 activePlan, backup, events, session, sessionLogs>>

\* the same, with a saveToBackupFile that fails at once (part_000, no picker)
FinishReadFailed(i) ==
  /\ procs[i].kind = "finish" /\ procs[i].pc = "read"
  /\ ExportCall(procs[i]).pc = "failed"
  /\ logs' = procs[i].res
  /\ ExportReturn(i, <<BackupFailedAlert>>)
  /\ UNCHANGED <<calc, variant, hasPicker, db, fileHandle, plans, backup, events,
                 sessionLogs>>

\* The Settings button: onBackup.
BackupClick ==
  /\ events < MaxEvents /\ CanStart("backup")
  /\ activeTab = "settings"
  /\ LET p == ExportCall([Proc("backup", "call") EXCEPT !.fh = fileHandle])
     IN /\ p.pc # "failed"
        /\ procs' = Append(procs, p)
  /\ events' = events + 1
  /\ step' = Silent
  /\ UNCHANGED <<calc, variant, hasPicker, db, activeTab, fileHandle, logs, plans,
                 activePlan, backup, session, sessionLogs>>

BackupClickFailed ==
  /\ events < MaxEvents
  /\ activeTab = "settings"
  /\ ExportCall([Proc("backup", "call") EXCEPT !.fh = fileHandle]).pc = "failed"
  /\ events' = events + 1
  /\ step' = Shown(<<BackupFailedAlert>>)
  /\ UNCHANGED <<calc, variant, hasPicker, db, activeTab, fileHandle, logs, plans,
                 activePlan, procs, backup, session, sessionLogs>>

\* db.logs.toArray() resolved: db.plans.toArray() is issued.
ExportLogsRead(i) ==
  /\ procs[i].pc = "xLogs"
  /\ procs' = [procs EXCEPT ![i].pc = "xPlans", ![i].allPlans = ToArray(db.plans)]
  /\ step' = Silent
  /\ UNCHANGED <<calc, variant, hasPicker, db, activeTab, fileHandle, logs, plans,
                 activePlan, backup, events, session, sessionLogs>>

\* db.plans.toArray() resolved: db.exercises.toArray() is issued.
ExportPlansRead(i) ==
  /\ procs[i].pc = "xPlans"
  /\ LET p == [procs[i] EXCEPT !.pc = "xExercises",
                                !.allExercises = ToArray(db.exercises)]
     IN procs' = [procs EXCEPT ![i] =
                    [p EXCEPT !.torn = AllData(p) \notin p.views, !.views = {}]]
  /\ step' = Silent
  /\ UNCHANGED <<calc, variant, hasPicker, db, activeTab, fileHandle, logs, plans,
                 activePlan, backup, events, session, sessionLogs>>

\* db.exercises.toArray() resolved, the write through a handle comes next:
\* db.js opens the picker when it holds no handle, else createWritable().
ExportExercisesRead(i) ==
  /\ procs[i].pc = "xExercises"
  /\ variant = "db.js" => hasPicker
  /\ procs' = [procs EXCEPT ![i].pc =
                 IF variant = "db.js" /\ ~procs[i].fh THEN "picker" ELSE "write"]
  /\ step' = Silent
  /\ UNCHANGED <<calc, variant, hasPicker, db, activeTab, fileHandle, logs, plans,
                 activePlan, backup, events, session, sessionLogs>>

\* db.js on a host without showSaveFilePicker: the download.
ExportDownload(i) ==
  /\ procs[i].pc = "xExercises"
  /\ variant = "db.js" /\ ~hasPicker
  /\ backup' = BackupFile("download", procs[i])
  /\ ExportReturn(i, <<>>)
  /\ UNCHANGED <<calc, variant, hasPicker, db, fileHandle, logs, plans, events,
                 sessionLogs>>

\* The user chose a file: setFileHandle(handle); db.js goes on to write,
\* part_000 to read the store.
PickerChosen(i) ==
  /\ procs[i].pc = "picker"
  /\ fileHandle' = TRUE
  /\ procs' = [procs EXCEPT ![i] =
                 IF variant = "db.js" THEN [@ EXCEPT !.fh = TRUE, !.pc = "write"]
                 ELSE ReadLogs([@ EXCEPT !.fh = TRUE])]
  /\ step' = Silent
  /\ UNCHANGED <<calc, variant, hasPicker, db, activeTab, logs, plans, activePlan,
                 backup, events, session, sessionLogs>>

\* Mutation of PickerCancelled: a cancelled backup takes the last log back.
PickerCancelledRollback(i) ==
  /\ procs[i].pc = "picker"
  /\ db' = [db EXCEPT !.logs.rows = SubSeq(@, 1, Len(@) - 1)]
  /\ IF variant = "db.js"
     THEN /\ backup' = BackupFile("download", procs[i])
          /\ ExportReturn(i, <<>>)
     ELSE /\ backup' = backup
          /\ ExportReturn(i, <<BackupFailedAlert>>)
  /\ UNCHANGED <<calc, variant, hasPicker, fileHandle, logs, plans, events,
                 sessionLogs>>

\* The user dismissed the picker (it throws): db.js falls back to the
\* download, part_000 alerts the failure.
PickerCancelled(i) ==
  /\ procs[i].pc = "picker"
  /\ IF variant = "db.js"
     THEN /\ backup' = BackupFile("download", procs[i])
          /\ ExportReturn(i, <<>>)
     ELSE /\ backup' = backup
          /\ ExportReturn(i, <<BackupFailedAlert>>)
  /\ UNCHANGED <<calc, variant, hasPicker, db, fileHandle, logs, plans, events,
                 sessionLogs>>

\* createWritable, write and close succeeded.
WriteDone(i) ==
  /\ procs[i].pc = "write"
  /\ backup' = BackupFile("handle", procs[i])
  /\ ExportReturn(i, IF variant = "db.js" THEN <<>> ELSE <<BackupUpdatedAlert>>)
  /\ UNCHANGED <<calc, variant, hasPicker, db, fileHandle, logs, plans, events,
                 sessionLogs>>

\* one of them threw
WriteFailed(i) ==
  /\ procs[i].pc = "write"
  /\ IF variant = "db.js"
     THEN /\ backup' = BackupFile("download", procs[i])
          /\ ExportReturn(i, <<>>)
     ELSE /\ backup' = backup
          /\ ExportReturn(i, <<BackupFailedAlert>>)
  /\ UNCHANGED <<calc, variant, hasPicker, db, fileHandle, logs, plans, events,
                 sessionLogs>>

(***************************************************************************)
(* SettingsView: importData.                                               *)
(***************************************************************************)
ImportOkAlert == "Data imported successfully! App state refreshed."
ImportFailedAlert == "Failed to import data. Ensure it's a valid JSON backup file."

WithId(row, n) == SetKey(row, "id", Num(n))

\* The files the user can pick: the last backup, and files from elsewhere.
Files == {"backup", "garbage", "null", "array", "partial", "duplicate", "untitled"}

\* A plan of a file written by hand: its title is empty.
UntitledPlan ==
  Obj(<< <<"title", Str(<<>>)>>, <<"exercises", Arr(<<>>)>>, <<"id", Num(3)>> >>)

FileText(f) ==
  CASE f = "backup" -> backup.text
    [] f = "garbage" -> <<Tok("{")>>
    [] f = "null" -> <<Tok("null")>>
    [] f = "array" -> <<Tok("["), Tok("]")>>
    [] f = "partial" ->
         Stringify(Obj(<< <<"plans", Arr(<<WithId(SeedPlan, 7)>>)>> >>))
    [] f = "duplicate" ->
         Stringify(Obj(<< <<"logs", Arr(<<SeedLog, SeedLog>>)>>,
                          <<"plans", Arr(<<SeedPlan>>)>> >>))
    [] f = "untitled" ->
         Stringify(Obj(<< <<"plans", Arr(<<UntitledPlan>>)>> >>))

\* The file input changed without a file.
ImportNoFile ==
  /\ events < MaxEvents
  /\ activeTab = "settings"
  /\ events' = events + 1
  /\ step' = Shown(<<"No file selected.">>)
  /\ UNCHANGED <<calc, variant, hasPicker, db, activeTab, fileHandle, logs, plans,
                 activePlan, procs, backup, session, sessionLogs>>

\* A file was picked: reader.readAsText(file).
ImportSelect(f) ==
  /\ events < MaxEvents /\ CanStart("import")
  /\ activeTab = "settings"
  /\ f = "backup" => backup.via # "none"
  /\ events' = events + 1
  /\ procs' = Append(procs, [Proc("import", "reading") EXCEPT
                               !.file = f, !.text = FileText(f),
                               !.snap = IF f = "backup" THEN backup.snap
                                        ELSE Undefined,
                               !.prior = Snapshot(db)])
  /\ step' = Silent
  /\ UNCHANGED <<calc, variant, hasPicker, db, activeTab, fileHandle, logs, plans,
                 activePlan, backup, session, sessionLogs>>

\* `const { logs, plans, exercises } = JSON.parse(...)` throws: the text is
\* no JSON, or its value is null.
ParseThrows(text) == ~JSONParse(text).ok \/ JSONParse(text).v = JNull

\* The handler ends with an alert.
ImportEnds(i, alert) ==
  /\ procs' = Remove(procs, i)
  /\ step' = Shown(<<alert>>)

\* reader.onload, the parse throws: catch.
ImportParseFailed(i) ==
  /\ procs[i].kind = "import" /\ procs[i].pc = "reading"
  /\ ParseThrows(procs[i].text)
  /\ ImportEnds(i, ImportFailedAlert)
  /\ UNCHANGED <<calc, variant, hasPicker, db, activeTab, fileHandle, logs, plans,
                 activePlan, backup, events, session, sessionLogs>>

\* Mutation of ImportOnload: a merge, db.logs.clear() is left out.
ImportOnloadMerge(i) ==
  /\ procs[i].kind = "import" /\ procs[i].pc = "reading"
  /\ ~ParseThrows(procs[i].text)
  /\ procs' = [procs EXCEPT
                 ![i].pc = "logs", ![i].text = <<>>,
                 ![i].data = JSONParse(procs[i].text).v]
  /\ step' = Silent
  /\ UNCHANGED <<calc, variant, hasPicker, db, activeTab, fileHandle, logs, plans,
                 activePlan, backup, events, session, sessionLogs>>

\* reader.onload: parsed; db.logs.clear() is issued.
ImportOnload(i) ==
  /\ procs[i].kind = "import" /\ procs[i].pc = "reading"
  /\ ~ParseThrows(procs[i].text)
  /\ db' = [db EXCEPT !.logs = TableClear(db.logs)]
  /\ procs' = [Interfere(procs, i, db') EXCEPT
                 ![i].pc = "logs", ![i].text = <<>>,
                 ![i].data = JSONParse(procs[i].text).v]
  /\ step' = Silent
  /\ UNCHANGED <<calc, variant, hasPicker, activeTab, fileHandle, logs, plans,
                 activePlan, backup, events, session, sessionLogs>>

ImportLogsCleared(i) ==
  /\ procs[i].kind = "import" /\ procs[i].pc = "logs"
  /\ db' = [db EXCEPT !.plans = TableClear(db.plans)]
  /\ procs' = [Interfere(procs, i, db') EXCEPT ![i].pc = "plans"]
  /\ step' = Silent
  /\ UNCHANGED <<calc, variant, hasPicker, activeTab, fileHandle, logs, plans,
                 activePlan, backup, events, session, sessionLogs>>

ImportPlansCleared(i) ==
  /\ procs[i].kind = "import" /\ procs[i].pc = "plans"
  /\ db' = [db EXCEPT !.exercises = TableClear(db.exercises)]
  /\ procs' = [Interfere(procs, i, db') EXCEPT ![i].pc = "exercises"]
  /\ step' = Silent
  /\ UNCHANGED <<calc, variant, hasPicker, activeTab, fileHandle, logs, plans,
                 activePlan, backup, events, session, sessionLogs>>

\* `if (importedLogs) await db.logs.bulkAdd(importedLogs)` and the two after
\* it: the tables in that order, stage = how many of them are behind.
ImportTables == <<"logs", "plans", "exercises">>

\* The next table whose key of the file is truthy, 0 when there is none.
NextBulk(p) ==
  LET todo == {k \in (p.stage + 1)..Len(ImportTables) :
                 Truthy(Get(p.data, ImportTables[k]))}
  IN IF todo = {} THEN 0 ELSE CHOOSE k \in todo : \A m \in todo : k <= m

\* The await before resolved: the next bulkAdd is issued.
ImportBulkAdd(i) ==
  /\ procs[i].kind = "import" /\ procs[i].pc \in {"exercises", "bulk"}
  /\ procs[i].ok /\ NextBulk(procs[i]) # 0
  /\ LET k == NextBulk(procs[i])
         r == TableBulkAdd(db[ImportTables[k]], Get(procs[i].data, ImportTables[k]))
     IN /\ db' = [db EXCEPT ![ImportTables[k]] = r.tbl]
        /\ procs' = [Interfere(procs, i, db') EXCEPT
                       ![i].pc = "bulk", ![i].stage = k, ![i].ok = r.ok]
  /\ step' = Silent
  /\ UNCHANGED <<calc, variant, hasPicker, activeTab, fileHandle, logs, plans,
                 activePlan, backup, events, session, sessionLogs>>

\* bulkAdd rejected: catch.
ImportBulkFailed(i) ==
  /\ procs[i].kind = "import" /\ procs[i].pc = "bulk"
  /\ ~procs[i].ok
  /\ ImportEnds(i, ImportFailedAlert)
  /\ UNCHANGED <<calc, variant, hasPicker, db, activeTab, fileHandle, logs, plans,
                 activePlan, backup, events, session, sessionLogs>>

\* Nothing left to add: db.logs.toArray() is issued.
ImportReadLogs(i) ==
  /\ procs[i].kind = "import" /\ procs[i].pc \in {"exercises", "bulk"}
  /\ procs[i].ok /\ NextBulk(procs[i]) = 0
  /\ procs' = [procs EXCEPT ![i].pc = "readLogs", ![i].res = ToArray(db.logs)]
  /\ step' = Silent
  /\ UNCHANGED <<calc, variant, hasPicker, db, activeTab, fileHandle, logs, plans,
                 activePlan, backup, events, session, sessionLogs>>

\* setLogs; db.plans.toArray() is issued.
ImportReadPlans(i) ==
  /\ procs[i].kind = "import" /\ procs[i].pc = "readLogs"
  /\ logs' = procs[i].res
  /\ procs' = [procs EXCEPT ![i].pc = "readPlans", ![i].res = ToArray(db.plans)]
  /\ step' = Silent
  /\ UNCHANGED <<calc, variant, hasPicker, db, activeTab, fileHandle, plans,
                 activePlan, backup, events, session, sessionLogs>>

\* setPlans, setFileHandle(null) and the success alert.
ImportDone(i) ==
  /\ procs[i].kind = "import" /\ procs[i].pc = "readPlans"
  /\ plans' = procs[i].res
  /\ fileHandle' = FALSE
  /\ ImportEnds(i, ImportOkAlert)
  /\ UNCHANGED <<calc, variant, hasPicker, db, activeTab, logs, activePlan, backup,
                 events, session, sessionLogs>>

(***************************************************************************)
(* SettingsView: Delete All Local Data.                                    *)
(***************************************************************************)
ResetDeclined ==
  /\ events < MaxEvents
  /\ activeTab = "settings"
  /\ events' = events + 1
  /\ step' = Silent
  /\ UNCHANGED <<calc, variant, hasPicker, db, activeTab, fileHandle, logs, plans,
                 activePlan, procs, backup, session, sessionLogs>>

\* confirmed: db.logs.clear() is issued.
ResetClick ==
  /\ events < MaxEvents /\ CanStart("reset")
  /\ activeTab = "settings"
  /\ db' = [db EXCEPT !.logs = TableClear(db.logs)]
  /\ events' = events + 1
  /\ procs' = Append(Interfere(procs, 0, db'), Proc("reset", "logs"))
  /\ step' = Silent
  /\ UNCHANGED <<calc, variant, hasPicker, activeTab, fileHandle, logs, plans,
                 activePlan, backup, session, sessionLogs>>

\* logs.clear() resolved: db.plans.clear() is issued.
ResetLogsCleared(i) ==
  /\ procs[i].kind = "reset" /\ procs[i].pc = "logs"
  /\ db' = [db EXCEPT !.plans = TableClear(db.plans)]
  /\ procs' = [Interfere(procs, i, db') EXCEPT ![i].pc = "plans"]
  /\ step' = Silent
  /\ UNCHANGED <<calc, variant, hasPicker, activeTab, fileHandle, logs, plans,
                 activePlan, backup, events, session, sessionLogs>>

\* plans.clear() resolved: db.exercises.clear() is issued.
ResetPlansCleared(i) ==
  /\ procs[i].kind = "reset" /\ procs[i].pc = "plans"
  /\ db' = [db EXCEPT !.exercises = TableClear(db.exercises)]
  /\ procs' = [Interfere(procs, i, db') EXCEPT ![i].pc = "exercises"]
  /\ step' = Silent
  /\ UNCHANGED <<calc, variant, hasPicker, activeTab, fileHandle, logs, plans,
                 activePlan, backup, events, session, sessionLogs>>

\* exercises.clear() resolved: setLogs([]), setPlans([]) and the alert.
ResetDone(i) ==
  /\ procs[i].kind = "reset" /\ procs[i].pc = "exercises"
  /\ logs' = Arr(<<>>)
  /\ plans' = Arr(<<>>)
  /\ procs' = Remove(procs, i)
  /\ step' = Shown(<<"All local data deleted.">>)
  /\ UNCHANGED <<calc, variant, hasPicker, db, activeTab, fileHandle, activePlan,
                 backup, events, session, sessionLogs>>

Next ==
  \/ \E i \in DOMAIN procs : RefreshLogs(i)
  \/ \E i \in DOMAIN procs : RefreshDone(i)
  \/ \E t \in Tabs : TabClick(t)
  \/ \E form \in PlanForms(variant) : SavePlanRejected(form)
  \/ \E form \in PlanForms(variant) : SavePlanClick(form)
  \/ \E i \in DOMAIN procs : SavePlanAdded(i)
  \/ \E i \in DOMAIN procs : SavePlanDone(i)
  \/ \E id \in ShownPlanIds : DeletePlanDeclined(id)
  \/ \E id \in ShownPlanIds : DeletePlanClick(id)
  \/ \E i \in DOMAIN procs : DeletePlanDeleted(i)
  \/ \E i \in DOMAIN procs : DeletePlanDone(i)
  \/ \E k \in DOMAIN plans.a : SelectPlan(k)
  \/ CancelSession
  \/ \E filled \in BOOLEAN : FinishClick(filled)
  \/ \E i \in DOMAIN procs : FinishAdded(i)
  \/ \E i \in DOMAIN procs : FinishRead(i)
  \/ \E i \in DOMAIN procs : FinishReadFailed(i)
  \/ BackupClick
  \/ BackupClickFailed
  \/ \E i \in DOMAIN procs : ExportLogsRead(i)
  \/ \E i \in DOMAIN procs : ExportPlansRead(i)
  \/ \E i \in DOMAIN procs : ExportExercisesRead(i)
  \/ \E i \in DOMAIN procs : ExportDownload(i)
  \/ \E i \in DOMAIN procs : PickerChosen(i)
  \/ \E i \in DOMAIN procs : PickerCancelled(i)
  \/ \E i \in DOMAIN procs : WriteDone(i)
  \/ \E i \in DOMAIN procs : WriteFailed(i)
  \/ ImportNoFile
  \/ \E f \in Files : ImportSelect(f)
  \/ \E i \in DOMAIN procs : ImportParseFailed(i)
  \/ \E i \in DOMAIN procs : ImportOnload(i)
  \/ \E i \in DOMAIN procs : ImportLogsCleared(i)
  \/ \E i \in DOMAIN procs : ImportPlansCleared(i)
  \/ \E i \in DOMAIN procs : ImportBulkAdd(i)
  \/ \E i \in DOMAIN procs : ImportBulkFailed(i)
  \/ \E i \in DOMAIN procs : ImportReadLogs(i)
  \/ \E i \in DOMAIN procs : ImportReadPlans(i)
  \/ \E i \in DOMAIN procs : ImportDone(i)
  \/ ResetDeclined
  \/ ResetClick
  \/ \E i \in DOMAIN procs : ResetLogsCleared(i)
  \/ \E i \in DOMAIN procs : ResetPlansCleared(i)
  \/ \E i \in DOMAIN procs : ResetDone(i)

Spec == Init /\ [][Next]_vars

(***************************************************************************)
(* InsightsView's helpers, getBestSetForWorkout and calculate1RM, as        *)
(* operators, and the specification that calls them on bounded inputs.     *)
(* Numbers are integers or NaN; a quotient is kept as numerator and        *)
(* denominator until Math.round.                                           *)
(***************************************************************************)
MaxSets == 2        \* sets of the exercise entry a query is about

\* The longest prefix of s made of digits.
RECURSIVE DigitPrefix(_)
DigitPrefix(s) ==
  IF s = <<>> \/ ~IsDigit(Head(s)) THEN <<>>
  ELSE <<Head(s)>> \o DigitPrefix(Tail(s))

\* parseFloat(v) and parseInt(v), for numbers and for strings of digits and
\* other characters: the number the leading digits spell, NaN without one.
ParseFloat(v) ==
  CASE v.t = "num" -> v
    [] v.t = "str" ->
         IF DigitPrefix(v.s) = <<>> THEN NaN
         ELSE Num(DigitsValue(DigitPrefix(v.s), 0))
    [] OTHER -> NaN

ParseInt(v) == ParseFloat(v)

\* Mutation of Greater: a comparison that NaN wins.
GreaterOrNaN(a, b) == ~(IsNum(a) /\ IsNum(b) /\ a.n <= b.n)

\* a > b on numbers: false when either is NaN.
Greater(a, b) == IsNum(a) /\ IsNum(b) /\ a.n > b.n

\* Math.round(n / d) for integers n and d > 0: halves go up.
RoundHalfUp(n, d) == (2 * n + d) \div (2 * d)

\* Mutation of Brzycki: reps above 10 count as 10.
BrzyckiClamped(weight, reps) ==
  IF ~IsNum(weight) \/ ~IsNum(reps) THEN NaN
  ELSE LET r == IF reps.n > 10 THEN 10 ELSE reps.n
       IN Num(RoundHalfUp(10000 * weight.n, 10278 - 278 * r))

\* Math.round(weight / (1.0278 - (0.0278 * reps))), scaled by 10000.  No
\* whole number of reps makes the denominator 0.
Brzycki(weight, reps) ==
  IF ~IsNum(weight) \/ ~IsNum(reps) THEN NaN
  ELSE LET n == 10000 * weight.n
           d == 10278 - 278 * reps.n
       IN Num(IF d > 0 THEN RoundHalfUp(n, d) ELSE RoundHalfUp(-n, -d))

\* calculate1RM(weight, reps) (part_000)
calculate1RM(weight, reps) ==
  IF ~Truthy(weight) \/ ~Truthy(reps) \/ reps = Num(0) THEN Num(0)
  ELSE Brzycki(ParseFloat(weight), ParseFloat(reps))

BestOf(weight, reps, oneRM) ==
  Obj(<< <<"weight", weight>>, <<"reps", reps>>, <<"oneRM", oneRM>> >>)

\* sets.reduce((prev, current) => ..., prev) from index k on
RECURSIVE ReduceBest(_, _, _)
ReduceBest(sets, k, prev) ==
  IF k > Len(sets) THEN prev
  ELSE ReduceBest(sets, k + 1,
                  IF Greater(ParseFloat(Get(sets[k], "weight")),
                             ParseFloat(Get(prev, "weight")))
                  THEN sets[k] ELSE prev)

\* logEntry.exercises.find(ex => ex.name === workoutName): its index, 0 when
\* there is none.
FindExercise(logEntry, workoutName) ==
  LET exs == Get(logEntry, "exercises").a
      hits == {k \in DOMAIN exs : Get(exs[k], "name") = Str(workoutName)}
  IN IF hits = {} THEN 0 ELSE CHOOSE k \in hits : \A m \in hits : k <= m

getBestSetForWorkout(logEntry, workoutName) ==
  LET k == FindExercise(logEntry, workoutName) IN
  IF k = 0 \/ Get(Get(logEntry, "exercises").a[k], "sets").a = <<>>
  THEN BestOf(Num(0), Num(0), Num(0))
  ELSE LET sets == Get(Get(logEntry, "exercises").a[k], "sets").a
           bestSet == ReduceBest(sets, 1,
                                 Obj(<< <<"weight", Num(0)>>, <<"reps", Num(0)>> >>))
           weight == Get(bestSet, "weight")
           reps == Get(bestSet, "reps")
       IN BestOf(ParseFloat(weight), ParseInt(reps),
                 IF Truthy(weight) /\ Truthy(reps)
                 THEN Brzycki(ParseFloat(weight), ParseFloat(reps))
                 ELSE Num(0))

MaxLogs == 3        \* logs in the list InsightsView is given

\* new Date(date).toLocaleDateString(): the day of an ISO date, what stands
\* before its "T"; the time of day is dropped.
RECURSIVE DayOf(_)
DayOf(s) ==
  IF s = <<>> \/ Head(s) = "T" THEN <<>> ELSE <<Head(s)>> \o DayOf(Tail(s))

ToLocaleDateString(date) ==
  IF date.t = "str" /\ \E k \in DOMAIN date.s : date.s[k] = "T"
  THEN Str(DayOf(date.s))
  ELSE Str(<<"Invalid Date">>)

\* log.exercises.some(e => e.name === exName)
HasExercise(log, exName) ==
  \E k \in DOMAIN Get(log, "exercises").a :
    Get(Get(log, "exercises").a[k], "name") = Str(exName)

\* Mutation of LogsWith: the newest log of the list comes first.
LogsWithNewestFirst(logList, exName) ==
  LET hits == SelectSeq(logList, LAMBDA log : HasExercise(log, exName))
  IN [k \in DOMAIN hits |-> hits[Len(hits) + 1 - k]]

\* logs.filter(log => log.exercises.some(e => e.name === exName))
LogsWith(logList, exName) ==
  SelectSeq(logList, LAMBDA log : HasExercise(log, exName))

\* The chart's labels.
ChartLabels(logList, exName) ==
  LET hits == LogsWith(logList, exName)
  IN [k \in DOMAIN hits |-> ToLocaleDateString(Get(hits[k], "date"))]

\* The chart's data: `metricType === 'weight' ? bestSetData.weight :
\* bestSetData.oneRM` of every log the filter keeps.
ChartData(logList, exName, metricType) ==
  LET hits == LogsWith(logList, exName)
  IN [k \in DOMAIN hits |->
        LET bestSetData == getBestSetForWorkout(hits[k], exName)
        IN IF metricType = "weight" THEN Get(bestSetData, "weight")
           ELSE Get(bestSetData, "oneRM")]

\* UTF-16 code unit order of the characters the model uses.
CodeOrder ==
  <<" ", "-", "0", "1", "2", "3", "4", "5", "6", "7", "8", "9",
    "B", "P", "Q", "S", "T", "b", "x">>

CharCode(c) == CHOOSE k \in DOMAIN CodeOrder : CodeOrder[k] = c

\* a < b on strings: by code units, a proper prefix first.
RECURSIVE StrLess(_, _)
StrLess(a, b) ==
  IF b = <<>> THEN FALSE
  ELSE IF a = <<>> THEN TRUE
  ELSE IF Head(a) # Head(b) THEN CharCode(Head(a)) < CharCode(Head(b))
  ELSE StrLess(Tail(a), Tail(b))

\* logs.flatMap(l => l.exercises.map(ex => ex.name))
RECURSIVE FlatNames(_)
FlatNames(logList) ==
  IF logList = <<>> THEN <<>>
  ELSE LET exs == Get(Head(logList), "exercises").a
       IN [k \in DOMAIN exs |-> Get(exs[k], "name")] \o FlatNames(Tail(logList))

\* [...new Set(names)]: the first occurrence of every value, in that order.
RECURSIVE Dedupe(_)
Dedupe(names) ==
  IF names = <<>> THEN <<>>
  ELSE LET front == Dedupe(SubSeq(names, 1, Len(names) - 1))
           last == names[Len(names)]
       IN IF \E k \in DOMAIN front : front[k] = last THEN front
          ELSE Append(front, last)

\* Mutation of FilterBoolean: nothing is dropped.
FilterBooleanNone(names) == names

\* .filter(Boolean)
FilterBoolean(names) == SelectSeq(names, Truthy)

\* names with name put before the first element that is not below it
InsertSorted(names, name) ==
  LET below == {k \in DOMAIN names : StrLess(names[k].s, name.s)}
      n == Cardinality(below)
  IN SubSeq(names, 1, n) \o <<name>> \o SubSeq(names, n + 1, Len(names))

\* .sort() on strings: ascending by code units.
RECURSIVE SortDefault(_)
SortDefault(names) ==
  IF names = <<>> THEN <<>>
  ELSE InsertSorted(SortDefault(SubSeq(names, 1, Len(names) - 1)),
                    names[Len(names)])

\* InsightsView: uniqueExercises
uniqueExercises(logList) == SortDefault(FilterBoolean(Dedupe(FlatNames(logList))))

\* What the user can have typed into a set's two inputs.
WeightTexts == {<<>>, <<"0">>, <<"1", "0", "0">>, <<"1", "2", "0">>, <<"x">>}
RepsTexts == {<<>>, <<"0">>, <<"3">>, <<"5">>, <<"4", "0">>}

SetsTyped ==
  {Obj(<< <<"weight", Str(w)>>, <<"reps", Str(r)>> >>) :
     w \in WeightTexts, r \in RepsTexts}

SetLists == UNION {[1..n -> SetsTyped] : n \in 0..MaxSets}

LogExercise(name, sets) ==
  Obj(<< <<"name", Str(name)>>, <<"sets", Arr(sets)>> >>)

\* Logs to ask about exercise B: without an entry for it, with one, and with
\* one after another exercise's.
LogsAbout(sets) ==
  {NewLog(Str(<<"P">>), IsoDate(0), exs) :
     exs \in {<<LogExercise(<<"S">>, <<DoneSet>>)>>,
              <<LogExercise(<<"B">>, sets)>>,
              <<LogExercise(<<"S">>, <<DoneSet>>), LogExercise(<<"B">>, sets)>>}}

\* The arguments calculate1RM is given: a set's two texts, or numbers.
Amounts(texts) == {Str(t) : t \in texts} \cup {Num(0), Num(100), Num(5)}

BestSetCall(log) ==
  [fn |-> "bestSet", log |-> log, name |-> <<"B">>, out |-> Undefined]

OneRepMaxCall(weight, reps) ==
  [fn |-> "calculate1RM", weight |-> weight, reps |-> reps, out |-> Undefined]

\* Logs of the list InsightsView charts: stored out of date order, two of one
\* day, with and without an entry named B, with an entry named b and with
\* one without a name.
ChartLog(day, time, exs) == NewLog(Str(<<"P">>), Str(<<day, "T", time>>), exs)

Set100 == Obj(<< <<"weight", Str(<<"1", "0", "0">>)>>, <<"reps", Str(<<"5">>)>> >>)
Set120 == Obj(<< <<"weight", Str(<<"1", "2", "0">>)>>, <<"reps", Str(<<"3">>)>> >>)

ChartLogs ==
  { ChartLog("2", "0", <<LogExercise(<<"B">>, <<Set100>>)>>),
    ChartLog("1", "0", <<LogExercise(<<"B">>, <<Set120>>),
                         LogExercise(<<"S">>, <<DoneSet>>)>>),
    ChartLog("1", "1", <<LogExercise(<<"S">>, <<DoneSet>>)>>),
    ChartLog("3", "0", <<LogExercise(<<"b">>, <<DoneSet>>)>>),
    ChartLog("2", "1", <<LogExercise(<<>>, <<DoneSet>>),
                         LogExercise(<<"B">>, <<>>)>>) }

LogLists == UNION {[1..n -> ChartLogs] : n \in 0..MaxLogs}

MetricTypes == {"weight", "1rm"}

SeriesCall(logList, metricType) ==
  [fn |-> "series", logs |-> logList, name |-> <<"B">>, metric |-> metricType,
   out |-> Undefined]

UniqueCall(logList) == [fn |-> "uniqueExercises", logs |-> logList, out |-> Undefined]

app == <<variant, hasPicker, db, activeTab, fileHandle, logs, plans,
         activePlan, procs, backup, events, session, sessionLogs, step>>

\* The application at rest on the Insights tab, about to call a helper.
CalcInit ==
  /\ variant \in Variants
  /\ hasPicker = FALSE
  /\ db = EmptyDB
  /\ activeTab = "insights"
  /\ fileHandle = FALSE
  /\ logs = Arr(<<>>)
  /\ plans = Arr(<<>>)
  /\ activePlan = JNull
  /\ procs = <<>>
  /\ backup = NoBackup
  /\ events = 0
  /\ session = 0
  /\ sessionLogs = <<>>
  /\ step = Silent
  /\ calc \in {BestSetCall(log) : log \in UNION {LogsAbout(sets) : sets \in SetLists}}
            \cup {OneRepMaxCall(w, r) :
                    w \in Amounts(WeightTexts), r \in Amounts(RepsTexts)}
            \cup {SeriesCall(l, m) : l \in LogLists, m \in MetricTypes}
            \cup {UniqueCall(l) : l \in LogLists}

\* getBestSetForWorkout(log, exName) returns.
BestSetReturns ==
  /\ calc.fn = "bestSet" /\ calc.out = Undefined
  /\ calc' = [calc EXCEPT !.out = getBestSetForWorkout(calc.log, calc.name)]
  /\ UNCHANGED app

\* calculate1RM(set.weight, set.reps) returns (part_000 has it).
OneRepMaxReturns ==
  /\ calc.fn = "calculate1RM" /\ calc.out = Undefined
  /\ variant = "part_000"
  /\ calc' = [calc EXCEPT !.out = calculate1RM(calc.weight, calc.reps)]
  /\ UNCHANGED app

\* The <Line> of the open graph is given its labels and its data.
SeriesReturns ==
  /\ calc.fn = "series" /\ calc.out = Undefined
  /\ calc' = [calc EXCEPT !.out =
                [labels |-> ChartLabels(calc.logs, calc.name),
                 data |-> ChartData(calc.logs, calc.name, calc.metric)]]
  /\ UNCHANGED app

\* InsightsView renders: uniqueExercises is computed.
UniqueReturns ==
  /\ calc.fn = "uniqueExercises" /\ calc.out = Undefined
  /\ calc' = [calc EXCEPT !.out = Arr(uniqueExercises(calc.logs))]
  /\ UNCHANGED app

CalcNext == BestSetReturns \/ OneRepMaxReturns \/ SeriesReturns \/ UniqueReturns

SpecCalc == CalcInit /\ [][CalcNext]_vars

(***************************************************************************)
(* Properties.                                                             *)
(***************************************************************************)
Collections == {"logs", "plans", "exercises"}

\* An import of file f in flight at i that no other handler has disturbed.
ImportAlone(i, f) ==
  procs[i].kind = "import" /\ procs[i].file = f /\ procs[i].alone

\* C1 (round trip): an import of the file a backup export wrote, run with no
\* other handler writing to the store meanwhile, never ends in failure, and
\* when it ends the store's logs, plans and exercises equal the arrays of the
\* snapshot S the export serialised, element for element: same ids, same
\* field order, same array order.
RoundTrip ==
  [][\A i \in DOMAIN procs :
       ImportAlone(i, "backup") =>
         /\ ~ImportParseFailed(i)
         /\ ~ImportBulkFailed(i)
         /\ ImportDone(i) => Snapshot(db') = procs[i].snap]_vars

\* The store held something else than S, the import of S has done its last
\* write, and S has rows.
RoundTripDone ==
  \E i \in DOMAIN procs :
    /\ ImportAlone(i, "backup") /\ procs[i].pc = "readPlans"
    /\ procs[i].prior # procs[i].snap
    /\ Get(procs[i].snap, "logs").a # <<>>
    /\ Get(procs[i].snap, "plans").a # <<>>

\* C2 (blank title): savePlan with a title that is empty or only whitespace
\* shows "Plan title cannot be empty." and changes nothing in the store:
\* plans, logs and exercises are as before.
BlankTitleRejected ==
  [][\A form \in PlanForms(variant) :
       /\ Trim(form.title) = <<>>
       /\ SavePlanRejected(form) \/ SavePlanClick(form)
       => /\ step'.alerts = <<"Plan title cannot be empty.">>
          /\ db' = db]_vars

\* The validation error has been shown over a store that holds plans.
BlankTitleSeen ==
  /\ step.alerts = <<"Plan title cannot be empty.">>
  /\ db.plans.rows # <<>>

\* C3 (append only): the db.logs.add of handleFinishSession makes the logs one
\* longer, every log stored before is still there, unchanged and in its
\* place, and no later step of the handler writes to the store.
FinishAppendsOneLog ==
  [][/\ \A filled \in BOOLEAN :
          FinishClick(filled) =>
            /\ Len(db'.logs.rows) = Len(db.logs.rows) + 1
            /\ SubSeq(db'.logs.rows, 1, Len(db.logs.rows)) = db.logs.rows
            /\ db'.plans = db.plans /\ db'.exercises = db.exercises
      /\ \A i \in DOMAIN procs :
           FinishAdded(i) \/ FinishRead(i) \/ FinishReadFailed(i) => db' = db]_vars

\* A session's log has been added to a store that had one.
TwoLogsAppended ==
  /\ \E s \in DOMAIN sessionLogs : sessionLogs[s] >= 1
  /\ Len(db.logs.rows) >= 2
  /\ db.logs.rows[1] = SeedLog

\* What is in collection t of the file an import parsed: the array under key
\* t, nothing when the key is absent.
FileRows(data, t) == IF IsArr(Get(data, t)) THEN Get(data, t).a ELSE <<>>

\* C4 (full replace): when an import that no other handler disturbed reports
\* success, each of logs, plans and exercises holds exactly the entries of
\* the file's array of that name, none of the records stored before, and a
\* collection whose key the file lacks is empty.
ImportReplaces ==
  [][\A i \in DOMAIN procs :
       ImportDone(i) /\ procs[i].alone =>
         \A t \in Collections : db'[t].rows = FileRows(procs[i].data, t)]_vars

\* A file with plans only has been imported over a store that held logs, plans
\* and exercises.
PartialImported ==
  \E i \in DOMAIN procs :
    /\ ImportAlone(i, "partial") /\ procs[i].pc = "readPlans"
    /\ procs[i].prior = Snapshot(SeedDB)
    /\ db.plans.rows # <<>>

\* C5 (failed import): when an import that no other handler disturbed reports
\* failure, logs, plans and exercises are what they were when it started.
FailedImportKeepsStore ==
  [][\A i \in DOMAIN procs :
       /\ procs[i].kind = "import" /\ procs[i].alone
       /\ ImportParseFailed(i) \/ ImportBulkFailed(i)
       => Snapshot(db') = procs[i].prior]_vars

\* C6 (what import rejects): a file whose text is no JSON, or whose JSON value
\* is no object (an array, a number, a string, a boolean, null) is rejected
\* when it is read, and success is reported for objects only.
ImportRejectsNonObjects ==
  [][\A i \in DOMAIN procs :
       /\ (/\ procs[i].kind = "import" /\ procs[i].pc = "reading"
           /\ ~JSONParse(procs[i].text).ok \/ ~IsObj(JSONParse(procs[i].text).v))
          => ~ImportOnload(i)
       /\ ImportDone(i) => IsObj(procs[i].data)]_vars

\* C7 (reset): when the confirmed Delete All Local Data, run with no other
\* handler writing to the store meanwhile, completes, logs, plans and
\* exercises are empty.
ResetEmptiesStore ==
  [][\A i \in DOMAIN procs :
       ResetDone(i) /\ procs[i].alone =>
         \A t \in Collections : db'[t].rows = <<>>]_vars

\* A reset has issued its three clears on a store that had held logs and
\* plans (their key generators have moved).
ResetCleared ==
  \E i \in DOMAIN procs :
    /\ procs[i].kind = "reset" /\ procs[i].pc = "exercises" /\ procs[i].alone
    /\ db.logs.next > 1 /\ db.plans.next > 1

\* C8 (logs are immutable): no step other than the db.logs.clear() of a reset
\* or of an import removes or changes a stored log: saving and deleting
\* plans, finishing sessions and exporting keep every log, with its id,
\* planTitle, date and exercises.
StoredLogsStay ==
  [][(~ResetClick /\ \A i \in DOMAIN procs : ~ImportOnload(i)) =>
       \A k \in DOMAIN db.logs.rows :
         \E m \in DOMAIN db'.logs.rows : db'.logs.rows[m] = db.logs.rows[k]]_vars

\* The plan a log came from has been deleted and the log is there.
LogOutlivesPlan ==
  /\ step.alerts = <<"Plan deleted.">>
  /\ db.plans.rows = <<>>
  /\ db.logs.rows = <<SeedLog>>

\* C9 (one log per session): no session has more than one log added for it,
\* whatever happens while handleFinishSession is suspended.
OneLogPerSession == \A s \in DOMAIN sessionLogs : sessionLogs[s] <= 1

\* C10 (point-in-time export): the logs, plans and exercises a backup file
\* holds are, together, what the store held at one instant between the
\* export's first read and its last.
ExportIsPointInTime == backup.via # "none" => ~backup.torn

\* A step in which a handler other than an import issues toArray() on
\* collection t: the refresh effect (logs when the tab changes, then plans)
\* and the backup export (plans, then exercises, after its logs).
ReadIssued(t) ==
  \/ t = "logs" /\ \E tab \in Tabs : TabClick(tab)
  \/ t = "plans" /\ \E j \in DOMAIN procs : RefreshLogs(j) \/ ExportLogsRead(j)
  \/ t = "exercises" /\ \E j \in DOMAIN procs : ExportPlansRead(j)

\* C11 (atomic import): while an import is past its first write, a read of a
\* collection by the refresh effect or by a backup export finds in it what
\* the collection held before the import or what the file holds for it,
\* never something else.
ImportIsAtomic ==
  [][\A i \in DOMAIN procs :
       /\ procs[i].kind = "import" /\ procs[i].alone
       /\ procs[i].pc \notin {"reading", "readLogs", "readPlans"}
       => \A t \in Collections :
            ReadIssued(t) =>
              db[t].rows \in {Get(procs[i].prior, t).a,
                              FileRows(procs[i].data, t)}]_vars

\* The alerts the last step showed include a.
Alerted(st, a) == \E k \in DOMAIN st.alerts : st.alerts[k] = a

\* C12 (download fallback): no export call ends in a failure outcome: the
\* alert "Backup failed or cancelled." is never shown.
ExportNeverFails == ~Alerted(step, BackupFailedAlert)

\* C13 (cancelled picker): when the user dismisses the file picker, the export
\* call ends in that step with the failure reported to the user.
CancelIsReported ==
  [][\A i \in DOMAIN procs :
       PickerCancelled(i) => Alerted(step', BackupFailedAlert)]_vars

\* A step of saveToBackupFile, from its call to its return.
ExportStep ==
  \/ BackupClick
  \/ BackupClickFailed
  \/ \E i \in DOMAIN procs :
       \/ FinishRead(i) \/ FinishReadFailed(i)
       \/ ExportLogsRead(i) \/ ExportPlansRead(i) \/ ExportExercisesRead(i)
       \/ ExportDownload(i) \/ PickerChosen(i) \/ PickerCancelled(i)
       \/ WriteDone(i) \/ WriteFailed(i)

\* The log handleFinishSession at i added is in rows.
HasLog(rows, i) == \E k \in DOMAIN rows : rows[k] = procs[i].log

\* C14 (export leaves the store): no step of a backup export changes logs,
\* plans or exercises, whether it writes, fails or is cancelled; and when the
\* picker of the backup that follows a session's completion is cancelled, the
\* log that completion added is still stored.
ExportKeepsStore ==
  [][/\ ExportStep => db' = db
      /\ \A i \in DOMAIN procs :
           procs[i].kind = "finish" /\ procs[i].alone /\ PickerCancelled(i)
           => HasLog(db'.logs.rows, i)]_vars

\* The backup after a session was cancelled (part_000 says so) and the store
\* holds the session's log next to the one it had.
CancelledBackupKeepsLog ==
  /\ step.alerts = <<BackupFailedAlert, WorkoutCompleteAlert>>
  /\ hasPicker
  /\ Len(db.logs.rows) = 2

\* The step in which the export of the handler at i writes its file.
ExportWrites(i) ==
  \/ WriteDone(i)
  \/ ExportDownload(i)
  \/ variant = "db.js" /\ (PickerCancelled(i) \/ WriteFailed(i))

\* C15 (log before backup): when the backup that handleFinishSession triggers
\* writes its file, and no other handler has written to the store since the
\* session's log was added, the file's logs array holds that log.
BackupHoldsNewLog ==
  [][\A i \in DOMAIN procs :
       procs[i].kind = "finish" /\ procs[i].alone /\ ExportWrites(i)
       => HasLog(Get(backup'.snap, "logs").a, i)]_vars

\* A session has completed and its backup holds two logs.
BackupAfterFinish ==
  /\ Alerted(step, WorkoutCompleteAlert)
  /\ backup.via # "none"
  /\ Len(Get(backup.snap, "logs").a) = 2

\* C16 (handle remembered): while a handle is held (one was obtained from the
\* picker and no import has dropped it since), no call of saveToBackupFile
\* opens the picker.
HandleIsReused ==
  [][fileHandle =>
       /\ BackupClick => procs'[Len(procs')].pc # "picker"
       /\ \A i \in DOMAIN procs :
            FinishRead(i) \/ ExportExercisesRead(i) => procs'[i].pc # "picker"]_vars

\* A call of getBestSetForWorkout has returned.
BestSetReturned == calc.fn = "bestSet" /\ calc.out # Undefined

\* The sets of the entry the call is about (none when the log has no entry).
AskedSets ==
  LET k == FindExercise(calc.log, calc.name)
  IN IF k = 0 THEN <<>> ELSE Get(Get(calc.log, "exercises").a[k], "sets").a

SetWeight(j) == ParseFloat(Get(AskedSets[j], "weight"))

\* The sets whose weight is a number.
Weighed == {j \in DOMAIN AskedSets : IsNum(SetWeight(j))}

\* C17 (best set): for a log with an entry of that name in which some set's
\* weight is a number, bestSet returns the weight and the reps of the set of
\* greatest weight, the first of them in set order.
BestSetIsGreatest ==
  BestSetReturned /\ Weighed # {} =>
    \E j \in Weighed :
      /\ \A m \in Weighed : SetWeight(m).n <= SetWeight(j).n
      /\ \A m \in Weighed : m < j => SetWeight(m).n < SetWeight(j).n
      /\ Get(calc.out, "weight") = SetWeight(j)
      /\ Get(calc.out, "reps") = ParseInt(Get(AskedSets[j], "reps"))

\* C18 (nothing to report): bestSet returns weight 0, reps 0 and one-rep-max
\* 0 when the log has no entry of that name, when the entry has no sets, and
\* when no set's weight is a number.
BestSetZero ==
  BestSetReturned /\ Weighed = {} => calc.out = BestOf(Num(0), Num(0), Num(0))

\* bestSet has returned for an entry with two sets whose weights are blank or
\* no number.
BestSetOfBlanks ==
  /\ BestSetReturned /\ Weighed = {}
  /\ Len(AskedSets) = 2

\* v is zero or blank: 0, "" or "0".
ZeroOrBlank(v) == ~Truthy(v) \/ ParseFloat(v) = Num(0)

\* C19 (guard): calculate1RM returns 0 when its weight or its reps is zero or
\* blank, a number or a text; and bestSet reports one-rep-max 0 when the
\* weight or the reps it reports is 0 or the reps blank (NaN).
GuardedZero ==
  /\ (/\ calc.fn = "calculate1RM" /\ calc.out # Undefined
      /\ ZeroOrBlank(calc.weight) \/ ZeroOrBlank(calc.reps))
     => calc.out = Num(0)
  /\ (/\ BestSetReturned
      /\ \/ Get(calc.out, "weight") = Num(0)
         \/ Get(calc.out, "reps") \in {Num(0), NaN})
     => Get(calc.out, "oneRM") = Num(0)

\* r is n / d rounded to the nearest integer, halves up.
IsRounded(r, n, d) ==
  IF d > 0 THEN (2 * r - 1) * d <= 2 * n /\ 2 * n < (2 * r + 1) * d
  ELSE (2 * r - 1) * d >= 2 * n /\ 2 * n > (2 * r + 1) * d

\* out estimates weight and reps by the formula, reps as it is.
IsBrzycki(out, weight, reps) ==
  IsNum(out) /\ IsRounded(out.n, 10000 * weight.n, 10278 - 278 * reps.n)

NonZero(v) == IsNum(v) /\ v.n # 0

\* C20 (formula): for a weight and reps that are numbers other than 0, the
\* one-rep-max of calculate1RM and of bestSet is weight / (1.0278 - 0.0278 *
\* reps) rounded to the nearest integer, whatever reps is; and bestSet on the
\* sets 100 x 5, 120 x 3 returns weight 120, reps 3, one-rep-max 127.
OneRepMaxIsBrzycki ==
  /\ (/\ calc.fn = "calculate1RM" /\ calc.out # Undefined
      /\ NonZero(ParseFloat(calc.weight)) /\ NonZero(ParseFloat(calc.reps)))
     => IsBrzycki(calc.out, ParseFloat(calc.weight), ParseFloat(calc.reps))
  /\ (/\ BestSetReturned
      /\ NonZero(Get(calc.out, "weight")) /\ NonZero(Get(calc.out, "reps")))
     => IsBrzycki(Get(calc.out, "oneRM"), Get(calc.out, "weight"),
                  Get(calc.out, "reps"))
  /\ (/\ BestSetReturned
      /\ AskedSets = <<Obj(<< <<"weight", Str(<<"1", "0", "0">>)>>,
                              <<"reps", Str(<<"5">>)>> >>),
                       Obj(<< <<"weight", Str(<<"1", "2", "0">>)>>,
                              <<"reps", Str(<<"3">>)>> >>)>>)
     => calc.out = BestOf(Num(120), Num(3), Num(127))

\* bestSet has returned 120 x 3 with one-rep-max 127, and that for an entry
\* whose other set has 40 reps.
OneRepMaxOf120 ==
  /\ BestSetReturned
  /\ calc.out = BestOf(Num(120), Num(3), Num(127))
  /\ \E j \in DOMAIN AskedSets : Get(AskedSets[j], "reps") = Str(<<"4", "0">>)

\* The chart of a list of logs has been given its series.
SeriesReturned == calc.fn = "series" /\ calc.out # Undefined

\* The names of the entries of a log.
EntryNames(log) ==
  {Get(Get(log, "exercises").a[k], "name") : k \in DOMAIN Get(log, "exercises").a}

\* The places in the list of the logs with an entry of the name asked for.
Charted == {k \in DOMAIN calc.logs : Str(calc.name) \in EntryNames(calc.logs[k])}

\* The k-th of them, in list order.
ChartedAt(k) ==
  CHOOSE h \in Charted : Cardinality({m \in Charted : m <= h}) = k

\* The field of bestSet's result the metric names.
MetricField == IF calc.metric = "weight" THEN "weight" ELSE "oneRM"

\* C21 (series): the chart has one point per log of the list that has an
\* entry of exactly that name, in list order whatever the dates; the k-th
\* value is the metric's field of bestSet of the k-th such log, the k-th label
\* is the day of that same log, and there are as many labels as values.
SeriesIsPerLog ==
  SeriesReturned =>
    /\ Len(calc.out.data) = Cardinality(Charted)
    /\ Len(calc.out.labels) = Len(calc.out.data)
    /\ \A k \in 1..Cardinality(Charted) :
         LET log == calc.logs[ChartedAt(k)]
         IN /\ calc.out.data[k] =
                 Get(getBestSetForWorkout(log, calc.name), MetricField)
            /\ calc.out.labels[k] = ToLocaleDateString(Get(log, "date"))

\* A series of two points has been made of three logs: the first is of day
\* 2, the second, stored after a log without the entry, of day 1.
SeriesOutOfDateOrder ==
  /\ SeriesReturned
  /\ Len(calc.logs) = 3 /\ Charted = {1, 3}
  /\ calc.out.labels = <<Str(<<"2">>), Str(<<"1">>)>>
  /\ calc.out.data = <<Num(100), Num(120)>>

\* uniqueExercises has been computed.
UniqueReturned == calc.fn = "uniqueExercises" /\ calc.out # Undefined

\* C22 (names): uniqueExercises of a list of logs holds every name of an entry
\* of a log of the list but the empty one, each once, names that differ in
\* case apart, in ascending order.
UniqueNamesSorted ==
  UniqueReturned =>
    LET out == calc.out.a IN
    /\ {out[k] : k \in DOMAIN out} =
         UNION {EntryNames(calc.logs[k]) : k \in DOMAIN calc.logs} \ {Str(<<>>)}
    /\ \A k \in DOMAIN out : \A m \in DOMAIN out :
         k < m => StrLess(out[k].s, out[m].s)

\* The names B, S, the empty one, B and b of three logs have given B, S, b.
UniqueOfBenchSquat ==
  /\ UniqueReturned
  /\ FlatNames(calc.logs) =
       <<Str(<<"B">>), Str(<<"S">>), Str(<<>>), Str(<<"B">>), Str(<<"b">>)>>
  /\ calc.out = Arr(<<Str(<<"B">>), Str(<<"S">>), Str(<<"b">>)>>)

\* C23 (titles): every plan the store holds has a title that is not empty and
\* not only whitespace.
PlansAreTitled ==
  \A k \in DOMAIN db.plans.rows :
    LET title == Get(db.plans.rows[k], "title")
    IN title.t = "str" /\ Trim(title.s) # <<>>

\* The places of the plans of the store with id n.
PlansAt(n) == {k \in DOMAIN db.plans.rows : RowId(db.plans.rows[k]) = n}

\* C24 (delete): the db.plans.delete(id) of deletePlan takes the plan with
\* that id, and nothing else, out of the plans: the other plans stay as they
\* are and in their order, logs and exercises stay; when no plan has the id
\* the store stays as it is, and so it would on deleting the id once more.
PlanDeleteIsExact ==
  [][\A id \in ShownPlanIds :
       DeletePlanClick(id) =>
         /\ db'.logs = db.logs /\ db'.exercises = db.exercises
         /\ db'.plans.next = db.plans.next
         /\ PlansAt(id) = {} => db' = db
         /\ \A k \in PlansAt(id) : db'.plans.rows = Remove(db.plans.rows, k)
         /\ TableDelete(db'.plans, id) = db'.plans]_vars

\* One of two plans has been deleted: the other, the logs and the exercises
\* are in the store.
OnePlanDeleted ==
  /\ step.alerts = <<"Plan deleted.">>
  /\ db.plans.next = 3 /\ Len(db.plans.rows) = 1
  /\ db.logs.rows = <<SeedLog>> /\ db.exercises.rows = <<SeedExercise>>

\* The exercise names of the plans and of the logs the store holds.
StoredNames ==
  UNION ({EntryNames(db.plans.rows[k]) : k \in DOMAIN db.plans.rows}
         \cup {EntryNames(db.logs.rows[k]) : k \in DOMAIN db.logs.rows})

\* The names of the records of the exercises collection.
ExerciseRecordNames ==
  {Get(db.exercises.rows[k], "name") : k \in DOMAIN db.exercises.rows}

\* C25 (exercises follow): when savePlan or handleFinishSession has completed,
\* every exercise name of a stored plan or log has a record in the exercises
\* collection.
ExercisesCoverNames ==
  Alerted(step, "Plan saved successfully!") \/ Alerted(step, WorkoutCompleteAlert)
    => StoredNames \subseteq ExerciseRecordNames

\* The number of sets a plan exercise asks for: its goalSets, 3 when that is
\* 0 or not there.
GoalNumber(goalSets) ==
  LET n == ParseFloat(goalSets)
  IN IF IsNum(n) /\ n.n > 0 THEN n.n ELSE 3

\* C26 (session): the log handleFinishSession stores has the title of the
\* session's plan as planTitle and one entry per exercise of the plan, in the
\* plan's order and with its names, each with as many sets as the exercise's
\* goalSets says, 3 when goalSets is 0 or unset; the sets are the blank ones
\* where nothing was entered.
SessionFollowsPlan ==
  [][\A filled \in BOOLEAN :
       FinishClick(filled) =>
         LET log == procs'[Len(procs')].log
             planned == Get(activePlan, "exercises").a
             done == Get(log, "exercises").a
         IN /\ Get(log, "planTitle") = Get(activePlan, "title")
            /\ Len(done) = Len(planned)
            /\ \A k \in DOMAIN done :
                 /\ Get(done[k], "name") = Get(planned[k], "name")
                 /\ Len(Get(done[k], "sets").a) =
                      GoalNumber(Get(planned[k], "goalSets"))
                 /\ ~filled =>
                      \A m \in DOMAIN Get(done[k], "sets").a :
                        Get(done[k], "sets").a[m] = BlankSet]_vars

\* C27 (the UI follows the store): whenever no handler is in flight, the logs
\* and the plans the UI holds are the store's logs and plans.
ListsMatchStore ==
  procs = <<>> => logs = ToArray(db.logs) /\ plans = ToArray(db.plans)

\* C28 (success message): a step that shows "Workout complete! Data saved and
\* backup file updated." is one in which the session's backup writes its file
\* or offers it for download, and it does not show the backup's failure.
CompleteMeansBackedUp ==
  [][Alerted(step', WorkoutCompleteAlert) =>
       /\ \E i \in DOMAIN procs : procs[i].kind = "finish" /\ ExportWrites(i)
       /\ ~Alerted(step', BackupFailedAlert)]_vars
=============================================================================
